---- MODULE Spec2Model ----
(***************************************************************************)
(* Verification model of the FinResearch submissions:                      *)
(*   - prateek-mulye: the LangGraph research graph (graph.py, manager.py)  *)
(*     and the Gradio handler with its rate limiter and response cache     *)
(*     (app.py);                                                           *)
(*   - shaheer-airaj/yan-cotta: the LangGraph demo workflow;               *)
(*   - yan-cotta: the interactive loop with ConversationContext (main.py)  *)
(*     and the integration verification script (verify_full_run.py).       *)
(* Each subsystem has its own variables, actions and specification.        *)
(***************************************************************************)
EXTENDS Integers, Sequences, FiniteSets, TLC

VARIABLES
    \* ---- prateek-mulye research graph ----
    gclock,         \* time.time(), in seconds
    verdictDocs,    \* timestamps of the final_verdict documents of the ticker in Pinecone
    gpc,            \* "idle" | "running" | "done" (reached END) | "failed" (invoke raised)
    pending,        \* nodes of the current superstep that have not run yet
    triggered,      \* nodes triggered for the next superstep
    execCount,      \* executions of each node in the current run
    agents_to_run,  \* AgentState["agents_to_run"]
    foundAge,       \* the recency, in seconds, the manager computed for final_verdict
    history,        \* the nodes of the current run in execution order
    llmKind,        \* the kind of answer the manager's LLM gave in the current run
    \* ---- prateek-mulye Gradio handler (app.py) ----
    aclock,         \* time.time(), in seconds
    rate_limit_db,  \* client_ip -> [count, window_start, blocked_until]
    response_cache, \* <<ticker, mode>> -> [timestamp, output]
    windowCalls,    \* client_ip -> calls of check_rate_limit since its window started
    lastCall,       \* what the last call of run_research saw and did
    \* ---- LangGraph demo workflow (demo_langgraph_workflow.py) ----
    dpc,            \* "idle", the node to run next, "routing", "done" (END) or "failed"
    dstate,         \* the FinancialResearchState of the run
    dexec,          \* executions of each node in the current run
    dhistory,       \* the nodes of the current run in execution order
    analystSetTrue, \* analyst_node set needs_more_research to True in the current run
    \* ---- interactive mode (yan-cotta/main.py, src/crew.py) ----
    memory,          \* the entries of the ChromaDB collection behind MemoryTool
    session_history, \* ConversationContext._session_history
    current_ticker,  \* ConversationContext._current_ticker
    loop,            \* "prompt" while run_interactive_mode loops, else "exited"
    lastAction,      \* the action of the last query the loop handled
    \* ---- integration verification (yan-cotta/verify_full_run.py) ----
    vpc,            \* position in run_full_verification / main
    vargs,          \* dry_run and test_interactive of the run
    steps,          \* VerificationResult.steps
    all_passed,     \* VerificationResult.all_passed
    error,          \* VerificationResult.error
    exit_code,      \* what main returned
    \* ---- parse_interactive_query (yan-cotta/main.py) ----
    pquery,         \* the query of the last call, a sequence of characters
    pcurrent,       \* its current_ticker (<<>> for None)
    presult,        \* what the call returned
    \* ---- scoring methodology (rajan-hans/app_new.py) ----
    sstage,         \* the part of the Final Score added last
    sinputs,        \* the inputs of that part
    stotal,         \* the sum of the parts so far, times ScoreScale
    \* ---- reporter (prateek-mulye/src/agents/reporter.py) ----
    full_output,    \* the content of the LLM's answer, a sequence of characters
    reported        \* what ReportingAgent.run returned for it

graphVars == <<gclock, verdictDocs, gpc, pending, triggered, execCount,
               agents_to_run, foundAge, history, llmKind>>

appVars == <<aclock, rate_limit_db, response_cache, windowCalls, lastCall>>

demoVars == <<dpc, dstate, dexec, dhistory, analystSetTrue>>

ctxVars == <<memory, session_history, current_ticker, loop, lastAction>>
verifyVars == <<vpc, vargs, steps, all_passed, error, exit_code>>

parseVars == <<pquery, pcurrent, presult>>

scoreVars == <<sstage, sinputs, stotal>>

reportVars == <<full_output, reported>>

vars == <<graphVars, appVars, demoVars, ctxVars, verifyVars, parseVars, scoreVars,
          reportVars>>

\* What the actions of one subsystem leave alone.
outsideGraph == <<appVars, demoVars, ctxVars, verifyVars, parseVars, scoreVars, reportVars>>
outsideApp == <<graphVars, demoVars, ctxVars, verifyVars, parseVars, scoreVars, reportVars>>
outsideDemo == <<graphVars, appVars, ctxVars, verifyVars, parseVars, scoreVars, reportVars>>
outsideCtx == <<graphVars, appVars, demoVars, verifyVars, parseVars, scoreVars, reportVars>>
outsideVerify == <<graphVars, appVars, demoVars, ctxVars, parseVars, scoreVars, reportVars>>
outsideParse == <<graphVars, appVars, demoVars, ctxVars, verifyVars, scoreVars, reportVars>>
outsideScore == <<graphVars, appVars, demoVars, ctxVars, verifyVars, parseVars, reportVars>>
outsideReport == <<graphVars, appVars, demoVars, ctxVars, verifyVars, parseVars, scoreVars>>

(***************************************************************************)
(* prateek-mulye: src/graph.py, src/agents/manager.py, src/memory.py       *)
(***************************************************************************)

\* Bounds of the graph model: the clock advances in steps of GTickSeconds up to MaxGClock.
GTickSeconds == 150
MaxGClock == 450

Researchers == {"tavily_researcher", "yfinance_researcher", "tradingview_researcher"}
GraphNodes == {"manager", "analyst", "reporter"} \cup Researchers

\* Names an LLM answer may put into agents_to_run: the graph's node names
\* ("reporter" is a name that the path map of the conditional edge does not hold).
AgentNames == Researchers \cup {"analyst", "reporter"}

\* The path map given to add_conditional_edges.
PathMap == Researchers \cup {"analyst"}

\* k of the similarity search in _get_recency.
SearchK == 5
\* "fresh (< 5 mins)"; diff_mins = seconds / 60.
FreshMinutes == 5
SecondsPerMinute == 60

\* A document stored without a timestamp in its metadata.
NoTimestamp == -1
\* The None that _get_recency returns when no result has a timestamp.
NoRecency == -1

SetMax(S) == CHOOSE m \in S : \A x \in S : x <= m

\* ManagerAgent._get_recency: the age of the most recent of the results that have
\* a timestamp, None when there is none.
GetRecency(results, now) ==
    LET timestamps == {r \in results : r # NoTimestamp}
    IN  IF timestamps # {} THEN now - SetMax(timestamps) ELSE NoRecency

\* The shortcut test of ManagerAgent.run:
\*   if inventory["final_verdict"] and inventory["final_verdict"] < 5
\* A recency of None or of 0.0 is falsy in Python.
FreshVerdict(recency) ==
    /\ recency # NoRecency
    /\ recency # 0
    /\ recency < FreshMinutes * SecondsPerMinute

\* The answers of the manager's LLM: text that is no JSON, JSON that is no object
\* (no .get), or an object with or without the key agents_to_run.
LLMResponses ==
    {[kind |-> "invalid", agents |-> {}], [kind |-> "nonobject", agents |-> {}],
     [kind |-> "nokey", agents |-> {}]}
    \cup {[kind |-> "object", agents |-> a] : a \in SUBSET AgentNames}

\* The LLM is not asked when the shortcut is taken.
NotAsked == "not asked"

\* A parse without the fallback of the except branch.
ParseDecisionNoFallback(resp) ==
    IF resp.kind \in {"invalid", "nonobject", "nokey"} THEN {} ELSE resp.agents
\* The try/except of ManagerAgent.run that parses the decision.
ParseDecision(resp) ==
    IF resp.kind \in {"invalid", "nonobject"}
    THEN Researchers
    ELSE IF resp.kind = "nokey" THEN {} ELSE resp.agents

\* ManagerAgent.run: the value written to agents_to_run.
ManagerDecision(recency, resp) ==
    IF FreshVerdict(recency) THEN {} ELSE ParseDecision(resp)

\* route_research: the destinations of the conditional edge.
RouteResearch(agents) ==
    IF agents = {} THEN {"analyst"} ELSE agents

\* The static edges of create_graph (END is the empty set of successors).
StaticEdges(node) ==
    IF node \in Researchers THEN {"analyst"}
    ELSE IF node = "analyst" THEN {"reporter"}
    ELSE {}

ZeroCount == [n \in GraphNodes |-> 0]

InitGraph ==
    /\ gclock = 0
    /\ verdictDocs \in {{}, {NoTimestamp}}
    /\ gpc = "idle"
    /\ pending = {}
    /\ triggered = {}
    /\ execCount = ZeroCount
    /\ agents_to_run = {}
    /\ foundAge = NoRecency
    /\ history = <<>>
    /\ llmKind = NotAsked

\* time.time() moves on.
GTick ==
    /\ UNCHANGED outsideGraph
    /\ gclock + GTickSeconds <= MaxGClock
    /\ gclock' = gclock + GTickSeconds
    /\ UNCHANGED <<verdictDocs, gpc, pending, triggered, execCount, agents_to_run,
                   foundAge, history, llmKind>>

\* app.invoke(initial_state): the entry point is the manager.
Invoke ==
    /\ UNCHANGED outsideGraph
    /\ gpc # "running"
    /\ gpc' = "running"
    /\ pending' = {"manager"}
    /\ triggered' = {}
    /\ execCount' = ZeroCount
    /\ agents_to_run' = {}
    /\ foundAge' = NoRecency
    /\ history' = <<>>
    /\ llmKind' = NotAsked
    /\ UNCHANGED <<gclock, verdictDocs>>

\* The end of a node's task in a superstep: the nodes it writes to are triggered;
\* when the superstep is over the triggered nodes form the next one, and the run
\* ends when there is none.
FinishNode(node, dests) ==
    /\ execCount' = [execCount EXCEPT ![node] = @ + 1]
    /\ history' = Append(history, node)
    /\ LET rest == pending \ {node}
           trig == triggered \cup dests
       IN  IF rest # {}
           THEN /\ pending' = rest
                /\ triggered' = trig
                /\ gpc' = "running"
           ELSE /\ pending' = trig
                /\ triggered' = {}
                /\ gpc' = IF trig = {} THEN "done" ELSE "running"

\* A node (or the conditional edge after it) raises: invoke raises.
RaiseNode(node) ==
    /\ execCount' = [execCount EXCEPT ![node] = @ + 1]
    /\ history' = Append(history, node)
    /\ pending' = {}
    /\ triggered' = {}
    /\ gpc' = "failed"

\* manager_node, then route_research on its update.
ManagerNode ==
    /\ UNCHANGED outsideGraph
    /\ gpc = "running"
    /\ "manager" \in pending
    /\ \E results \in SUBSET verdictDocs, resp \in LLMResponses :
          /\ Cardinality(results) <= SearchK
          /\ LET recency == GetRecency(results, gclock)
                 decision == ManagerDecision(recency, resp)
                 dests == RouteResearch(decision)
             IN  /\ foundAge' = recency
                 /\ llmKind' = IF FreshVerdict(recency) THEN NotAsked ELSE resp.kind
                 /\ agents_to_run' = decision
                 /\ IF dests \subseteq PathMap
                    THEN FinishNode("manager", dests)
                    ELSE RaiseNode("manager")
    /\ UNCHANGED <<gclock, verdictDocs>>

\* manager_node raises (the vector store or the LLM call fails).
ManagerRaises ==
    /\ UNCHANGED outsideGraph
    /\ gpc = "running"
    /\ "manager" \in pending
    /\ RaiseNode("manager")
    /\ UNCHANGED <<gclock, verdictDocs, agents_to_run, foundAge, llmKind>>

\* tavily_node, yfinance_node, tradingview_node: they store documents of other
\* types and return a message only.
ResearcherNode ==
    /\ UNCHANGED outsideGraph
    /\ gpc = "running"
    /\ \E r \in Researchers \cap pending :
          \/ FinishNode(r, StaticEdges(r))
          \/ RaiseNode(r)
    /\ UNCHANGED <<gclock, verdictDocs, agents_to_run, foundAge, llmKind>>

\* analyst_node: stores the final_verdict document; add_documents stamps it with
\* time.time().
AnalystNode ==
    /\ UNCHANGED outsideGraph
    /\ gpc = "running"
    /\ "analyst" \in pending
    /\ verdictDocs' = verdictDocs \cup {gclock}
    /\ FinishNode("analyst", StaticEdges("analyst"))
    /\ UNCHANGED <<gclock, agents_to_run, foundAge, llmKind>>

AnalystRaises ==
    /\ UNCHANGED outsideGraph
    /\ gpc = "running"
    /\ "analyst" \in pending
    /\ RaiseNode("analyst")
    /\ UNCHANGED <<gclock, verdictDocs, agents_to_run, foundAge, llmKind>>

\* reporter_node, whose edge leads to END.
ReporterNode ==
    /\ UNCHANGED outsideGraph
    /\ gpc = "running"
    /\ "reporter" \in pending
    /\ \/ FinishNode("reporter", StaticEdges("reporter"))
       \/ RaiseNode("reporter")
    /\ UNCHANGED <<gclock, verdictDocs, agents_to_run, foundAge, llmKind>>

NextGraph ==
    \/ GTick
    \/ Invoke
    \/ ManagerNode
    \/ ManagerRaises
    \/ ResearcherNode
    \/ AnalystNode
    \/ AnalystRaises
    \/ ReporterNode

(***************************************************************************)
(* prateek-mulye: app.py (check_rate_limit, run_research)                  *)
(***************************************************************************)

CACHE_DURATION == 300
RATE_LIMIT_BLOCK == 1800
MAX_REQUESTS_PER_WINDOW == 5
RATE_LIMIT_WINDOW == 3600

\* Bounds of the handler model: the clock advances in steps of RateTickSeconds up to
\* MaxRateClock where the rate limiter is examined, and in steps of CacheTickSeconds
\* up to MaxCacheClock where the response cache is.
RateTickSeconds == 1800
MaxRateClock == 5400
CacheTickSeconds == 150
MaxCacheClock == 450

\* Strings are sequences of characters. The ticker inputs: a blank one and
\* spellings of two symbols in either case, with and without surrounding blanks.
RawTickers ==
    {<<" ">>, <<"A">>, <<" ", "a", " ">>, <<"b">>}
Modes == {"Neutral", "Bearish"}
\* gr.Request objects by client host, and the missing request.
Requests == {"10.0.0.1", "none"}
\* The final_report the graph produces.
Contents == {"report"}
\* windowCalls counts up to this number.
CallsCap == MAX_REQUESTS_PER_WINDOW + 2

\* str.upper()
UpperChar(c) == IF c = "a" THEN "A" ELSE IF c = "b" THEN "B" ELSE c
Upper(s) == [i \in 1..Len(s) |-> UpperChar(s[i])]

\* str.strip()
RECURSIVE LStrip(_)
LStrip(s) == IF s # <<>> /\ Head(s) \in {" ", "\n"} THEN LStrip(Tail(s)) ELSE s
RECURSIVE RStrip(_)
RStrip(s) ==
    IF s # <<>> /\ s[Len(s)] \in {" ", "\n"} THEN RStrip(SubSeq(s, 1, Len(s) - 1)) ELSE s
Strip(s) == RStrip(LStrip(s))

\* ticker = ticker.upper().strip()
NormalizeTicker(raw) == Strip(Upper(raw))

\* get_client_ip
GetClientIp(request) == IF request # "none" THEN request ELSE "unknown"

\* A store that keeps the newest key only.
PutEvicting(d, k, v) == [x \in {k} |-> v]
\* d[k] = v on a dict
Put(d, k, v) == [x \in DOMAIN d \cup {k} |-> IF x = k THEN v ELSE d[x]]

\* The window test of check_rate_limit: the count restarts when the window is over.
RestartWindow(u, now) ==
    IF now - u.window_start > RATE_LIMIT_WINDOW
    THEN [u EXCEPT !.count = 0, !.window_start = now]
    ELSE u

\* The limit test of check_rate_limit, on the count that includes the call.
OverLimitOffByOne(count) == count >= MAX_REQUESTS_PER_WINDOW
OverLimit(count) == count > MAX_REQUESTS_PER_WINDOW

\* check_rate_limit: the database after the call and whether the call returned
\* (admitted) or raised gr.Error.
CheckRateLimit(db, client_ip, now) ==
    LET db1 == IF client_ip \notin DOMAIN db
               THEN Put(db, client_ip, [count |-> 0, window_start |-> now, blocked_until |-> 0])
               ELSE db
        user_data == db1[client_ip]
    IN  IF user_data.blocked_until > now
        THEN [db |-> db1, admitted |-> FALSE]
        ELSE LET u1 == RestartWindow(user_data, now)
                 u2 == [u1 EXCEPT !.count = @ + 1]
             IN  IF OverLimit(u2.count)
                 THEN [db |-> Put(db1, client_ip, [u2 EXCEPT !.blocked_until = now + RATE_LIMIT_BLOCK]),
                       admitted |-> FALSE]
                 ELSE [db |-> Put(db1, client_ip, u2), admitted |-> TRUE]

\* The cache test of run_research: the key is present and its entry is younger
\* than CACHE_DURATION.
CacheHit(cache, cache_key, now) ==
    /\ cache_key \in DOMAIN cache
    /\ now - cache[cache_key].timestamp < CACHE_DURATION

\* The entry run_research stores after app.invoke.
NewEntry(now, final_output) == [timestamp |-> now, output |-> final_output]

\* The cache after a hit: untouched.
CacheRefreshedOnHit(cache, cache_key, now) ==
    Put(cache, cache_key, [cache[cache_key] EXCEPT !.timestamp = now])
CacheAfterHit(cache, cache_key, now) == cache

NoCall == [outcome |-> "none", call |-> [client |-> "none", raw |-> <<>>, key |-> <<>>], output |-> "none"]

InitApp ==
    /\ aclock = 0
    /\ rate_limit_db = <<>>
    /\ response_cache = <<>>
    /\ windowCalls = <<>>
    /\ lastCall = NoCall

\* time.time() moves on.
ATick(seconds, max) ==
    /\ UNCHANGED outsideApp
    /\ aclock + seconds <= max
    /\ aclock' = aclock + seconds
    /\ UNCHANGED <<rate_limit_db, response_cache, windowCalls, lastCall>>

RateTick == ATick(RateTickSeconds, MaxRateClock)

CacheTick == ATick(CacheTickSeconds, MaxCacheClock)

\* The number of the call in the client's window: a new window starts when the
\* client's entry is created or its window_start is set anew.
CallsAfter(client_ip, db2) ==
    IF /\ client_ip \in DOMAIN rate_limit_db
       /\ db2[client_ip].window_start = rate_limit_db[client_ip].window_start
    THEN IF windowCalls[client_ip] < CallsCap THEN windowCalls[client_ip] + 1 ELSE CallsCap
    ELSE 1

\* run_research(ticker, mode, request) for inputs of the given sets. valid is the
\* answer of the yfinance check, graph the result of app.invoke: "raise" or the
\* content of the output.
RunResearch(requests, raws, modes, graphs) ==
    \E request \in requests, raw \in raws, mode \in modes,
       valid \in BOOLEAN, graph \in graphs :
        LET now == aclock
            client_ip == GetClientIp(request)
            rl == CheckRateLimit(rate_limit_db, client_ip, now)
            ticker == NormalizeTicker(raw)
            cache_key == <<ticker, mode>>
            call == [client |-> client_ip, raw |-> raw, key |-> cache_key]
        IN  /\ UNCHANGED outsideApp
            /\ rate_limit_db' = rl.db
            /\ windowCalls' = Put(windowCalls, client_ip, CallsAfter(client_ip, rl.db))
            /\ UNCHANGED aclock
            /\ IF ~rl.admitted
               THEN /\ lastCall' = [outcome |-> "rate_limited", call |-> call, output |-> "none"]
                    /\ UNCHANGED response_cache
               ELSE IF ticker = <<>>
               THEN /\ lastCall' = [outcome |-> "no_ticker", call |-> call, output |-> "none"]
                    /\ UNCHANGED response_cache
               ELSE IF ~valid
               THEN /\ lastCall' = [outcome |-> "invalid_ticker", call |-> call, output |-> "none"]
                    /\ UNCHANGED response_cache
               ELSE IF CacheHit(response_cache, cache_key, now)
               THEN /\ lastCall' = [outcome |-> "cached", call |-> call,
                                    output |-> response_cache[cache_key].output]
                    /\ response_cache' = CacheAfterHit(response_cache, cache_key, now)
               ELSE IF graph = "raise"
               THEN /\ lastCall' = [outcome |-> "graph_raised", call |-> call, output |-> "none"]
                    /\ UNCHANGED response_cache
               ELSE LET final_output == [ticker |-> ticker, mode |-> mode,
                                         made |-> now, content |-> graph]
                    IN  /\ lastCall' = [outcome |-> "invoked", call |-> call,
                                        output |-> final_output]
                        /\ response_cache' =
                               Put(response_cache, cache_key, NewEntry(now, final_output))

\* Requests of all clients for one symbol and mode.
ClientRequest == RunResearch(Requests, {<<"a">>}, {"Neutral"}, Contents)

\* Requests of one client for all ticker inputs and modes.
TickerRequest == RunResearch({"10.0.0.1"}, RawTickers, Modes, Contents \cup {"raise"})

NextRate ==
    \/ RateTick
    \/ ClientRequest

NextCache ==
    \/ CacheTick
    \/ TickerRequest

(***************************************************************************)
(* shaheer-airaj/yan-cotta: demo_langgraph_workflow.py                     *)
(***************************************************************************)

DemoNodes == {"data_collector", "analyst", "researcher", "report_writer"}
DemoTickers == {"NVDA", "AAPL", "TSLA"}

\* The analyst LLM's answers, by the line they end with.
AnalystAnswers ==
    {"NEEDS_MORE_RESEARCH: YES", "needs_more_research: yes",
     "NEEDS_MORE_RESEARCH: NO", "no such line"}

\* analysis_text.upper(), as far as the closing line goes.
UpperAnswer(text) ==
    IF text = "needs_more_research: yes" THEN "NEEDS_MORE_RESEARCH: YES" ELSE text

\* needs_more = "NEEDS_MORE_RESEARCH: YES" in analysis_text.upper()
NeedsMore(text) == UpperAnswer(text) = "NEEDS_MORE_RESEARCH: YES"

\* initial_state of run_financial_research.
InitialState(ticker) ==
    [ticker |-> ticker, stock_data |-> "empty", analysis |-> "",
     needs_more_research |-> FALSE, research_notes |-> "", final_report |-> "",
     current_step |-> "initialized", messages |-> <<>>]

\* should_research: the routing function of the conditional edge.
NeverResearch(state) == "report_writer"
ShouldResearch(state) ==
    IF state.needs_more_research THEN "researcher" ELSE "report_writer"

\* The static edges of build_research_workflow ("END" ends the run).
ResearcherEndsRun(node) ==
    IF node = "data_collector" THEN "analyst" ELSE "END"
DemoEdge(node) ==
    IF node = "data_collector" THEN "analyst"
    ELSE IF node = "researcher" THEN "report_writer"
    ELSE "END"

DemoZero == [n \in DemoNodes |-> 0]

InitDemo ==
    /\ dpc = "idle"
    /\ dstate = InitialState("NVDA")
    /\ dexec = DemoZero
    /\ dhistory = <<>>
    /\ analystSetTrue = FALSE

\* run_financial_research(ticker): workflow.invoke(initial_state); the entry
\* point is data_collector.
RunFinancialResearch ==
    /\ UNCHANGED outsideDemo
    /\ dpc \in {"idle", "done", "failed"}
    /\ \E ticker \in DemoTickers : dstate' = InitialState(ticker)
    /\ dpc' = "data_collector"
    /\ dexec' = DemoZero
    /\ dhistory' = <<>>
    /\ analystSetTrue' = FALSE

Executed(node) ==
    /\ dexec' = [dexec EXCEPT ![node] = @ + 1]
    /\ dhistory' = Append(dhistory, node)

GoTo(target) == dpc' = IF target = "END" THEN "done" ELSE target

\* data_collector_node: the fetch succeeds or its exception is caught.
DataCollectorNode ==
    /\ UNCHANGED outsideDemo
    /\ dpc = "data_collector"
    /\ \E fetched \in {"ok", "error"} :
          dstate' = [dstate EXCEPT !.stock_data = fetched,
                                   !.current_step = "data_collected"]
    /\ Executed("data_collector")
    /\ GoTo(DemoEdge("data_collector"))
    /\ UNCHANGED analystSetTrue

\* analyst_node; the conditional edge is evaluated next.
AnalystDemoNode ==
    /\ UNCHANGED outsideDemo
    /\ dpc = "analyst"
    /\ Executed("analyst")
    /\ dpc' = "routing"
    /\ IF dstate.stock_data = "error"
       THEN /\ dstate' = [dstate EXCEPT !.analysis = "Analysis failed",
                                        !.needs_more_research = FALSE,
                                        !.current_step = "analysis_failed"]
            /\ UNCHANGED analystSetTrue
       ELSE \E text \in AnalystAnswers :
               /\ dstate' = [dstate EXCEPT !.analysis = text,
                                           !.needs_more_research = NeedsMore(text),
                                           !.current_step = "analysis_complete",
                                           !.messages = Append(@, "analyst")]
               /\ analystSetTrue' = NeedsMore(text)

\* should_research chooses the node after the analyst.
ShouldResearchEdge ==
    /\ UNCHANGED outsideDemo
    /\ dpc = "routing"
    /\ dpc' = ShouldResearch(dstate)
    /\ UNCHANGED <<dstate, dexec, dhistory, analystSetTrue>>

\* researcher_node
ResearcherDemoNode ==
    /\ UNCHANGED outsideDemo
    /\ dpc = "researcher"
    /\ Executed("researcher")
    /\ dstate' = [dstate EXCEPT !.research_notes = "notes",
                                !.current_step = "research_complete",
                                !.messages = Append(@, "researcher")]
    /\ GoTo(DemoEdge("researcher"))
    /\ UNCHANGED analystSetTrue

\* report_writer_node
ReportWriterNode ==
    /\ UNCHANGED outsideDemo
    /\ dpc = "report_writer"
    /\ Executed("report_writer")
    /\ dstate' = [dstate EXCEPT !.final_report = "report",
                                !.current_step = "report_complete",
                                !.messages = Append(@, "report_writer")]
    /\ GoTo(DemoEdge("report_writer"))
    /\ UNCHANGED analystSetTrue

\* The LLM call of a node raises: invoke raises, the node's update is lost.
DemoNodeRaises ==
    /\ UNCHANGED outsideDemo
    /\ dpc \in {"analyst", "researcher", "report_writer"}
    /\ dpc = "analyst" => dstate.stock_data # "error"
    /\ Executed(dpc)
    /\ dpc' = "failed"
    /\ UNCHANGED <<dstate, analystSetTrue>>

NextDemo ==
    \/ RunFinancialResearch
    \/ DataCollectorNode
    \/ AnalystDemoNode
    \/ ShouldResearchEdge
    \/ ResearcherDemoNode
    \/ ReportWriterNode
    \/ DemoNodeRaises

(***************************************************************************)
(* shaheer-airaj/yan-cotta: main.py (interactive mode) and src/crew.py     *)
(***************************************************************************)

MaxQueries == 2
CtxTickers == {"AAPL", "TSLA"}
NoTicker == "none"

\* MemoryTool._run over the shared ChromaDB collection: "save:<category>:...",
\* "retrieve:<query>" and "clear".  An entry is kept with its category, the
\* ticker it is about and the number of the query that stored it.
MemorySave(mem, category, ticker, query) ==
    mem \cup {[category |-> category, ticker |-> ticker, query |-> query]}
MemoryRetrieve(mem, query) == {e \in mem : e.ticker = query}
MemoryClear(mem) == {}

\* ConversationContext.get_context_for_ticker: {} stands for "".
GetContextForTicker(mem, ticker) == MemoryRetrieve(mem, ticker)

\* FinResearchCrew.run up to kickoff: "Clear previous memory for fresh research".
RunStart(mem) == MemoryClear(mem)

\* The (ticker, action) results parse_interactive_query can give.
ParsedQueries(current) ==
    [ticker : {NoTicker}, action : {"exit", "help", "status", "clear", "unknown", "context"}]
    \cup [ticker : CtxTickers, action : {"research", "context"}]
    \cup [ticker : {current} \ {NoTicker}, action : {"followup", "context"}]

InitCtx ==
    /\ memory = {}
    /\ session_history = <<>>
    /\ current_ticker = NoTicker
    /\ loop = "prompt"
    /\ lastAction = "none"

\* run_interactive_mode is started (again): a new ConversationContext over the
\* same collection.
RunInteractiveMode ==
    /\ UNCHANGED outsideCtx
    /\ loop = "exited"
    /\ loop' = "prompt"
    /\ session_history' = <<>>
    /\ current_ticker' = NoTicker
    /\ lastAction' = "none"
    /\ UNCHANGED memory

\* ConversationContext.add_to_history; the save to MemoryTool may fail silently.
AddToHistory(mem, ticker, success) ==
    /\ session_history' = Append(session_history, [ticker |-> ticker, success |-> success])
    /\ \E persisted \in BOOLEAN :
          memory' = IF persisted
                    THEN MemorySave(mem, "conversation", ticker, Len(session_history) + 1)
                    ELSE mem

\* One pass of the loop for a query that is not a research request.
HandleCommand ==
    /\ UNCHANGED outsideCtx
    /\ loop = "prompt"
    /\ \E parsed \in ParsedQueries(current_ticker) :
          /\ parsed.action # "research"
          /\ lastAction' = parsed.action
          /\ loop' = IF parsed.action = "exit" THEN "exited" ELSE "prompt"
          /\ IF parsed.action = "clear"
             THEN /\ session_history' = <<>>
                  /\ current_ticker' = NoTicker
                  /\ \E cleared \in BOOLEAN :
                        memory' = IF cleared THEN MemoryClear(memory) ELSE memory
             ELSE UNCHANGED <<session_history, current_ticker, memory>>

\* One pass of the loop for action == "research": the crew is built and run,
\* the agents may store findings, and the query is added to the history.
HandleResearch ==
    /\ UNCHANGED outsideCtx
    /\ loop = "prompt"
    /\ Len(session_history) < MaxQueries
    /\ \E parsed \in ParsedQueries(current_ticker) :
          /\ parsed.action = "research"
          /\ lastAction' = "research"
          /\ loop' = "prompt"
          /\ current_ticker' = parsed.ticker
          /\ \E built \in BOOLEAN, found \in BOOLEAN, success \in BOOLEAN :
                LET started == IF built THEN RunStart(memory) ELSE memory
                    after == IF built /\ found
                             THEN MemorySave(started, "finding", parsed.ticker,
                                             Len(session_history) + 1)
                             ELSE started
                IN  AddToHistory(after, parsed.ticker, built /\ success)

NextCtx ==
    \/ RunInteractiveMode
    \/ HandleCommand
    \/ HandleResearch

(***************************************************************************)
(* shaheer-airaj/yan-cotta: verify_full_run.py                             *)
(***************************************************************************)

\* Steps 1-6 of run_full_verification, each of which returns when it fails.
GateSteps ==
    <<"Imports", "Configuration", "Environment", "Memory Tool",
      "Agent Creation", "Output Directory">>
NumGateSteps == 6
NoError == "none"
NoExit == 2

Step(name, passed) == [name |-> name, passed |-> passed]

\* all(s.passed for s in result.steps)
AllPassed(ss) == \A i \in 1..Len(ss) : ss[i].passed

\* Where run_full_verification goes after a step that returns on failure.
AfterGateNoReturn(passed, onward) == onward
AfterGate(passed, onward) == IF passed THEN onward ELSE "returned"

\* main: return 0 if result.all_passed else 1
ExitCode(passed) == IF passed THEN 0 ELSE 1

InitVerify ==
    /\ vpc = "idle"
    /\ vargs = [dry_run |-> FALSE, test_interactive |-> FALSE]
    /\ steps = <<>>
    /\ all_passed = FALSE
    /\ error = NoError
    /\ exit_code = NoExit

\* main calls run_full_verification: result = VerificationResult(ticker=ticker).
StartVerification ==
    /\ UNCHANGED outsideVerify
    /\ vpc \in {"idle", "exited"}
    /\ vargs' \in [dry_run : BOOLEAN, test_interactive : BOOLEAN]
    /\ vpc' = "gate"
    /\ steps' = <<>>
    /\ all_passed' = FALSE
    /\ error' = NoError
    /\ exit_code' = NoExit

\* Steps 1-6: add_step, and on failure set error and return.
GateStep ==
    /\ UNCHANGED outsideVerify
    /\ vpc = "gate"
    /\ \E passed \in BOOLEAN :
          LET name == GateSteps[Len(steps) + 1]
              onward == IF Len(steps) + 1 < NumGateSteps THEN "gate" ELSE "parallel"
          IN  /\ steps' = Append(steps, Step(name, passed))
              /\ error' = IF passed THEN error ELSE name
              /\ vpc' = AfterGate(passed, onward)
    /\ UNCHANGED <<vargs, all_passed, exit_code>>

\* Step 7: verify_parallel_config is recorded and the run goes on.
ParallelConfigStep ==
    /\ UNCHANGED outsideVerify
    /\ vpc = "parallel"
    /\ \E passed \in BOOLEAN : steps' = Append(steps, Step("Parallel Config", passed))
    /\ vpc' = "interactive"
    /\ UNCHANGED <<vargs, all_passed, error, exit_code>>

\* Steps 8-9, when test_interactive is set.
InteractiveSteps ==
    /\ UNCHANGED outsideVerify
    /\ vpc = "interactive"
    /\ IF vargs.test_interactive
       THEN \E parsing \in BOOLEAN, context \in BOOLEAN :
               steps' = steps \o <<Step("Interactive Parsing", parsing),
                                   Step("Conversation Context", context)>>
       ELSE UNCHANGED steps
    /\ vpc' = IF vargs.dry_run THEN "dry_run" ELSE "crew"
    /\ UNCHANGED <<vargs, all_passed, error, exit_code>>

\* if dry_run: three skipped steps, all_passed, return.
DryRunReturn ==
    /\ UNCHANGED outsideVerify
    /\ vpc = "dry_run"
    /\ LET recorded == steps \o <<Step("Crew Execution", TRUE),
                                  Step("Report Generation", TRUE),
                                  Step("Report Validation", TRUE)>>
       IN  /\ steps' = recorded
           /\ all_passed' = AllPassed(recorded)
    /\ vpc' = "returned"
    /\ UNCHANGED <<vargs, error, exit_code>>

\* Steps 10-12 inside the try block, then the overall result.
CrewRun ==
    /\ UNCHANGED outsideVerify
    /\ vpc = "crew"
    /\ vpc' = "returned"
    /\ \E outcome \in {"crew raised", "save raised", "report empty",
                       "report invalid", "report valid"} :
          CASE outcome = "crew raised" ->
                  /\ steps' = Append(steps, Step("Crew Execution", FALSE))
                  /\ error' = "Crew Execution"
                  /\ UNCHANGED all_passed
            [] outcome = "save raised" ->
                  /\ steps' = steps \o <<Step("Crew Execution", TRUE),
                                         Step("Crew Execution", FALSE)>>
                  /\ error' = "Crew Execution"
                  /\ UNCHANGED all_passed
            [] outcome = "report empty" ->
                  /\ steps' = steps \o <<Step("Crew Execution", TRUE),
                                         Step("Report Generation", FALSE)>>
                  /\ error' = "Report not generated"
                  /\ UNCHANGED all_passed
            [] OTHER ->
                  LET recorded == steps \o <<Step("Crew Execution", TRUE),
                                             Step("Report Generation", TRUE),
                                             Step("Report Validation",
                                                  outcome = "report valid")>>
                  IN  /\ steps' = recorded
                      /\ all_passed' = AllPassed(recorded)
                      /\ UNCHANGED error
    /\ UNCHANGED <<vargs, exit_code>>

\* main returns the exit code.
MainReturn ==
    /\ UNCHANGED outsideVerify
    /\ vpc = "returned"
    /\ exit_code' = ExitCode(all_passed)
    /\ vpc' = "exited"
    /\ UNCHANGED <<vargs, steps, all_passed, error>>

NextVerify ==
    \/ StartVerification
    \/ GateStep
    \/ ParallelConfigStep
    \/ InteractiveSteps
    \/ DryRunReturn
    \/ CrewRun
    \/ MainReturn

(***************************************************************************)
(* yan-cotta: main.py, parse_interactive_query                             *)
(***************************************************************************)

\* Strings are sequences of characters; <<>> also stands for None.
LowerLetters ==
    <<"a", "b", "c", "d", "e", "f", "g", "h", "i", "j", "k", "l", "m",
      "n", "o", "p", "q", "r", "s", "t", "u", "v", "w", "x", "y", "z">>
UpperLetters ==
    <<"A", "B", "C", "D", "E", "F", "G", "H", "I", "J", "K", "L", "M",
      "N", "O", "P", "Q", "R", "S", "T", "U", "V", "W", "X", "Y", "Z">>
Digits == {"0", "1", "2", "3", "4", "5", "6", "7", "8", "9"}

IsLower(c) == \E i \in DOMAIN LowerLetters : LowerLetters[i] = c
IsUpper(c) == \E i \in DOMAIN LowerLetters : UpperLetters[i] = c
IsLetter(c) == IsLower(c) \/ IsUpper(c)
\* \w of the re module
IsWordChar(c) == IsLetter(c) \/ c \in Digits \/ c = "_"

\* str.lower() and str.upper() over the whole alphabet
ToLowerChar(c) ==
    IF IsUpper(c) THEN LowerLetters[CHOOSE i \in DOMAIN LowerLetters : UpperLetters[i] = c] ELSE c
ToUpperChar(c) ==
    IF IsLower(c) THEN UpperLetters[CHOOSE i \in DOMAIN LowerLetters : LowerLetters[i] = c] ELSE c
Lower(s) == [i \in 1..Len(s) |-> ToLowerChar(s[i])]
ToUpper(s) == [i \in 1..Len(s) |-> ToUpperChar(s[i])]

\* str.startswith and the "in" of strings
StartsWith(s, prefix) ==
    Len(prefix) <= Len(s) /\ SubSeq(s, 1, Len(prefix)) = prefix
Contains(s, sub) ==
    \E i \in 1..(Len(s) - Len(sub) + 1) : SubSeq(s, i, i + Len(sub) - 1) = sub

\* str.replace(old, ""): every occurrence of old is removed, left to right.
RECURSIVE Remove(_, _)
Remove(s, old) ==
    IF s = <<>> THEN <<>>
    ELSE IF StartsWith(s, old) THEN Remove(SubSeq(s, Len(old) + 1, Len(s)), old)
    ELSE <<Head(s)>> \o Remove(Tail(s), old)

\* The maximal runs, in order, of \w characters (word_chars) or of characters
\* other than the blank.
RECURSIVE Runs(_, _, _)
Runs(s, word_chars, run) ==
    IF s = <<>> THEN (IF run = <<>> THEN <<>> ELSE <<run>>)
    ELSE IF (IF word_chars THEN IsWordChar(Head(s)) ELSE Head(s) # " ")
         THEN Runs(Tail(s), word_chars, Append(run, Head(s)))
    ELSE (IF run = <<>> THEN <<>> ELSE <<run>>) \o Runs(Tail(s), word_chars, <<>>)

\* The blank-separated words of a string (blanks are the \s of the model).
Words(s) == Runs(s, FALSE, <<>>)
\* The maximal runs of \w characters.
WordRuns(s) == Runs(s, TRUE, <<>>)

\* [A-Za-z]{1,5} over a whole word
IsTickerWord(w) ==
    Len(w) >= 1 /\ Len(w) <= 5 /\ \A i \in 1..Len(w) : IsLetter(w[i])

ExitWords ==
    {<<"e", "x", "i", "t">>, <<"q", "u", "i", "t">>, <<"q">>, <<"b", "y", "e">>,
     <<"g", "o", "o", "d", "b", "y", "e">>}
HelpWords ==
    {<<"h", "e", "l", "p">>, <<"?">>, <<"c", "o", "m", "m", "a", "n", "d", "s">>}
StatusWords ==
    {<<"s", "t", "a", "t", "u", "s">>, <<"s", "e", "s", "s", "i", "o", "n">>,
     <<"s", "u", "m", "m", "a", "r", "y">>}
ClearWords ==
    {<<"c", "l", "e", "a", "r">>, <<"r", "e", "s", "e", "t">>, <<"n", "e", "w">>}
ContextWord == <<"c", "o", "n", "t", "e", "x", "t">>
\* research|analyze|look\s*up|check|get|report\s*on as words.
ResearchVerbs ==
    {<<"r", "e", "s", "e", "a", "r", "c", "h">>, <<"a", "n", "a", "l", "y", "z", "e">>,
     <<"l", "o", "o", "k", "u", "p">>, <<"c", "h", "e", "c", "k">>, <<"g", "e", "t">>,
     <<"r", "e", "p", "o", "r", "t", "o", "n">>}
SplitVerbs ==
    {<<<<"l", "o", "o", "k">>, <<"u", "p">>>>, <<<<"r", "e", "p", "o", "r", "t">>, <<"o", "n">>>>}
\* research|analysis|report
ResearchSuffixes ==
    {<<"r", "e", "s", "e", "a", "r", "c", "h">>,
     <<"a", "n", "a", "l", "y", "s", "i", "s">>, <<"r", "e", "p", "o", "r", "t">>}
followup_keywords ==
    {<<"m", "o", "r", "e">>, <<"d", "e", "t", "a", "i", "l">>,
     <<"e", "x", "p", "l", "a", "i", "n">>, <<"w", "h", "y">>,
     <<"w", "h", "a", "t", " ", "a", "b", "o", "u", "t">>,
     <<"c", "o", "m", "p", "a", "r", "e">>, <<"n", "e", "w", "s">>,
     <<"p", "r", "i", "c", "e">>, <<"m", "e", "t", "r", "i", "c", "s">>,
     <<"r", "i", "s", "k">>}

\* query_lower = query.lower().strip()
QueryStripped(query) == Strip(query)
QueryLower(query) == Strip(Lower(query))

NoCompany == "none"
Parsed(ticker, company, action) ==
    [ticker |-> ticker, company |-> company, action |-> action]

\* What stands for "no pattern matched" and for "nothing parsed yet".
NoMatch == Parsed(<<>>, NoCompany, "no match")
NotParsed == Parsed(<<>>, NoCompany, "none")

\* The three research_patterns, matched with re.IGNORECASE against
\* query.strip(): the result of the first that matches, else "no match".  As
\* the stripped query starts and ends with a non-blank, \s+ separates words, and
\* [A-Za-z]{1,5} followed by \s or $ is a whole word of one to five letters.
MatchResearch(query) ==
    LET ws == Words(Lower(Strip(query)))
        n == Len(ws)
        joined == IF n >= 2 THEN <<ws[1], ws[2]>> ELSE <<>>
    IN  IF n >= 2 /\ ws[1] \in ResearchVerbs /\ IsTickerWord(ws[2])
        THEN Parsed(ToUpper(ws[2]), IF n >= 3 THEN "rest" ELSE NoCompany, "research")
        ELSE IF n >= 3 /\ joined \in SplitVerbs /\ IsTickerWord(ws[3])
        THEN Parsed(ToUpper(ws[3]), IF n >= 4 THEN "rest" ELSE NoCompany, "research")
        ELSE IF n = 2 /\ IsTickerWord(ws[1]) /\ ws[2] \in ResearchSuffixes
        THEN Parsed(ToUpper(ws[1]), NoCompany, "research")
        ELSE IF n = 1 /\ IsTickerWord(ws[1])
        THEN Parsed(ToUpper(ws[1]), NoCompany, "research")
        ELSE NoMatch

\* re.search(r"\b([A-Z]{1,5})\b", query.upper()): the first run of word
\* characters that is one to five letters, else <<>>.
RECURSIVE FirstTickerRun(_)
FirstTickerRun(runs) ==
    IF runs = <<>> THEN <<>>
    ELSE IF IsTickerWord(Head(runs)) THEN Head(runs)
    ELSE FirstTickerRun(Tail(runs))
SearchTicker(query) == FirstTickerRun(WordRuns(ToUpper(query)))

\* parse_interactive_query(query, current_ticker)
ParseInteractiveQuery(query, current) ==
    LET query_lower == QueryLower(query)
        research == MatchResearch(query)
        stripped == Strip(Remove(query_lower, ContextWord))
    IN  IF query_lower \in ExitWords THEN Parsed(<<>>, NoCompany, "exit")
        ELSE IF query_lower \in HelpWords THEN Parsed(<<>>, NoCompany, "help")
        ELSE IF query_lower \in StatusWords THEN Parsed(<<>>, NoCompany, "status")
        ELSE IF query_lower \in ClearWords THEN Parsed(<<>>, NoCompany, "clear")
        ELSE IF StartsWith(query_lower, ContextWord)
        THEN Parsed(IF stripped # <<>> THEN ToUpper(stripped) ELSE current,
                    NoCompany, "context")
        ELSE IF research # NoMatch THEN research
        ELSE IF current # <<>>
                /\ \E kw \in followup_keywords : Contains(query_lower, kw)
        THEN Parsed(current, NoCompany, "followup")
        ELSE IF SearchTicker(query) # <<>>
        THEN Parsed(SearchTicker(query), NoCompany, "research")
        ELSE Parsed(<<>>, NoCompany, "unknown")

\* The queries typed at the prompt, in lower case ...
BaseQueries ==
    {<<"e", "x", "i", "t">>, <<"q", "u", "i", "t">>, <<"q">>, <<"b", "y", "e">>,
     <<"g", "o", "o", "d", "b", "y", "e">>, <<"h", "e", "l", "p">>, <<"?">>,
     <<"c", "o", "m", "m", "a", "n", "d", "s">>, <<"s", "t", "a", "t", "u", "s">>,
     <<"s", "e", "s", "s", "i", "o", "n">>, <<"s", "u", "m", "m", "a", "r", "y">>,
     <<"c", "l", "e", "a", "r">>, <<"r", "e", "s", "e", "t">>, <<"n", "e", "w">>,
     <<"c", "o", "n", "t", "e", "x", "t">>,
     <<"c", "o", "n", "t", "e", "x", "t", " ", "a", "a", "p", "l">>,
     <<"a", "a", "p", "l">>,
     <<"r", "e", "s", "e", "a", "r", "c", "h", " ", "t", "s", "l", "a">>,
     <<"a", "n", "a", "l", "y", "z", "e", " ", "m", "s", "f", "t">>,
     <<"l", "o", "o", "k", " ", "u", "p", " ", "g", "o", "o", "g", "l">>,
     <<"l", "o", "o", "k", "u", "p", " ", "i", "b", "m">>,
     <<"r", "e", "p", "o", "r", "t", " ", "o", "n", " ", "k", "o">>,
     <<"t", "s", "l", "a", " ", "r", "e", "p", "o", "r", "t">>,
     <<"a", "a", "p", "l", " ", "a", "n", "a", "l", "y", "s", "i", "s">>,
     <<"g", "e", "t", " ", "m", "o", "r", "e", " ", "n", "e", "w", "s">>,
     <<"c", "h", "e", "c", "k", " ", "p", "r", "i", "c", "e">>, <<"m", "o", "r", "e">>,
     <<"w", "h", "y">>, <<"n", "e", "w", "s">>, <<"p", "r", "i", "c", "e">>,
     <<"r", "i", "s", "k">>, <<"d", "e", "t", "a", "i", "l">>,
     <<"e", "x", "p", "l", "a", "i", "n">>, <<"c", "o", "m", "p", "a", "r", "e">>,
     <<"m", "e", "t", "r", "i", "c", "s">>,
     <<"w", "h", "a", "t", " ", "a", "b", "o", "u", "t">>,
     <<"m", "o", "r", "e", " ", "d", "e", "t", "a", "i", "l", "s">>,
     <<"w", "h", "a", "t", " ", "a", "b", "o", "u", "t", " ", "r", "i", "s", "k", "s">>,
     <<"e", "x", "p", "l", "a", "i", "n", " ", "t", "h", "e", " ", "r", "i", "s", "k">>,
     <<"c", "o", "m", "p", "a", "r", "e", " ", "m", "s", "f", "t">>,
     <<"t", "e", "l", "l", " ", "m", "e", " ", "a", "b", "o", "u", "t", " ", "a", "p", "p", "l", "e">>,
     <<"s", "u", "m", "m", "a", "r", "i", "z", "e">>, <<"a", "a", "p", "l", "2">>,
     <<"2">>}
\* ... and in other letter cases and with surrounding blanks.
Capitalize(s) == [i \in 1..Len(s) |-> IF i = 1 THEN ToUpperChar(s[i]) ELSE s[i]]
Spellings(q) ==
    {q, ToUpper(q), Capitalize(q), <<" ">> \o q, q \o <<" ">>,
     <<" ", " ">> \o ToUpper(q) \o <<" ">>}
Queries == UNION {Spellings(q) : q \in BaseQueries}
CurrentTickers == {<<>>, <<"A", "A", "P", "L">>}

InitParse ==
    /\ pquery = <<>>
    /\ pcurrent = <<>>
    /\ presult = NotParsed

\* The loop of run_interactive_mode reads and parses a query.
ParseQuery ==
    /\ UNCHANGED outsideParse
    /\ presult = NotParsed
    /\ \E query \in Queries, current \in CurrentTickers :
          /\ pquery' = query
          /\ pcurrent' = current
          /\ presult' = ParseInteractiveQuery(query, current)

\* The loop comes back to its prompt.
NextPrompt ==
    /\ UNCHANGED outsideParse
    /\ presult # NotParsed
    /\ pquery' = <<>>
    /\ pcurrent' = <<>>
    /\ presult' = NotParsed

NextParse ==
    \/ ParseQuery
    \/ NextPrompt

(***************************************************************************)
(* rajan-hans: app_new.py, the scoring methodology                         *)
(***************************************************************************)

\* The weights of the five factors, in percent.
ValuationWeight == 25
GrowthWeight == 25
ProfitabilityWeight == 15
HealthWeight == 15
TechnicalWeight == 20
\* The sentiment adjustment runs from -SentimentSpan to +SentimentSpan.
SentimentSpan == 5
\* Scores are kept times ScoreScale, which makes every weighted mean of the
\* tables a whole number.
ScoreScale == 120

\* Base score from the P/E ratio.
PEScore(pe) ==
    IF pe < 10 THEN 85 ELSE IF pe < 15 THEN 75 ELSE IF pe < 20 THEN 65
    ELSE IF pe < 25 THEN 55 ELSE IF pe <= 35 THEN 40 ELSE 25

\* Sector comparison adjustment, by P/E as a share of the sector median.
SectorAdjustment(pe, sector_pe) ==
    IF 100 * pe < 70 * sector_pe THEN 15
    ELSE IF 100 * pe < 90 * sector_pe THEN 8
    ELSE IF 100 * pe <= 110 * sector_pe THEN 0
    ELSE IF 100 * pe <= 130 * sector_pe THEN 0 - 8
    ELSE 0 - 15

\* PEG ratio adjustment; the ratio is given in hundredths.
PEGAdjustment(peg) ==
    IF peg < 100 THEN 10 ELSE IF peg <= 150 THEN 5 ELSE IF peg < 200 THEN 0
    ELSE IF peg <= 250 THEN 0 - 5 ELSE 0 - 10

ValuationScore(pe, sector_pe, peg) ==
    PEScore(pe) + SectorAdjustment(pe, sector_pe) + PEGAdjustment(peg)

\* Growth rates, ROE and margins are given in percent.
RevenueScore(cagr) ==
    IF cagr >= 20 THEN 95 ELSE IF cagr >= 12 THEN 80 ELSE IF cagr >= 6 THEN 65
    ELSE IF cagr >= 0 THEN 45 ELSE 25
EPSScore(cagr) ==
    IF cagr >= 25 THEN 95 ELSE IF cagr >= 15 THEN 80 ELSE IF cagr >= 8 THEN 65
    ELSE IF cagr >= 0 THEN 45 ELSE 20
\* +5 if YoY growth > 3Y CAGR, -5 if decelerating
AccelerationBonus(yoy, cagr) ==
    IF yoy > cagr THEN 5 ELSE IF yoy < cagr THEN 0 - 5 ELSE 0

ROEScore(roe) ==
    IF roe >= 25 THEN 95 ELSE IF roe >= 15 THEN 80 ELSE IF roe >= 10 THEN 65
    ELSE IF roe >= 5 THEN 45 ELSE 25
MarginScore(margin) ==
    IF margin >= 30 THEN 95 ELSE IF margin >= 20 THEN 80 ELSE IF margin >= 10 THEN 60
    ELSE IF margin >= 0 THEN 40 ELSE 20

\* Debt/Equity is given in tenths.
DebtEquityScore(de) ==
    IF de <= 3 THEN 95 ELSE IF de <= 6 THEN 80 ELSE IF de <= 10 THEN 60
    ELSE IF de <= 20 THEN 40 ELSE 20
CoverageScore(times) ==
    IF times >= 10 THEN 95 ELSE IF times >= 6 THEN 80 ELSE IF times >= 3 THEN 60
    ELSE IF times >= 1 THEN 35 ELSE 15

RSIScore(rsi) ==
    IF rsi < 30 THEN 35 ELSE IF rsi < 40 THEN 55 ELSE IF rsi <= 60 THEN 80
    ELSE IF rsi <= 70 THEN 70 ELSE 40
TrendScore(trend) ==
    CASE trend = "Uptrend" -> 85 [] trend = "Sideways" -> 55 [] trend = "Downtrend" -> 25
DrawdownScore(drawdown) ==
    IF drawdown < 10 THEN 90 ELSE IF drawdown <= 20 THEN 70
    ELSE IF drawdown <= 35 THEN 45 ELSE 25

\* The terms of the Final Score formula, times ScoreScale:
\* 0.25 x Valuation
ValuationPart(pe, sector_pe, peg) ==
    (ScoreScale * ValuationWeight * ValuationScore(pe, sector_pe, peg)) \div 100
\* 0.25 x ((Revenue Score + EPS Score) / 2 + acceleration bonus)
GrowthPart(revenue, eps, yoy) ==
    (ScoreScale * GrowthWeight
        * (RevenueScore(revenue) + EPSScore(eps)
           + 2 * AccelerationBonus(yoy, revenue))) \div 200
\* 0.15 x (ROE Score + Margin Score) / 2
ProfitabilityPart(roe, margin) ==
    (ScoreScale * ProfitabilityWeight * (ROEScore(roe) + MarginScore(margin))) \div 200
\* 0.15 x (D/E Score + Interest Coverage Score) / 2
HealthPart(de, times) ==
    (ScoreScale * HealthWeight * (DebtEquityScore(de) + CoverageScore(times))) \div 200
\* 0.20 x (RSI Score + Trend Score + Drawdown Score) / 3
TechnicalPart(rsi, trend, drawdown) ==
    (ScoreScale * TechnicalWeight
        * (RSIScore(rsi) + TrendScore(trend) + DrawdownScore(drawdown))) \div 300
SentimentPart(adjustment) == ScoreScale * adjustment

\* Rating thresholds: the scores they cover run from 0 to 100.
RatingFloor == 0
RatingCeiling == 100

\* Inputs are drawn from values inside every row of every table.
InitScore ==
    /\ sstage = "none"
    /\ sinputs = <<>>
    /\ stotal = 0

ScoreStep(from, to, inputs, part) ==
    /\ UNCHANGED outsideScore
    /\ sstage = from
    /\ sstage' = to
    /\ sinputs' = inputs
    /\ stotal' = stotal + part

AddValuation ==
    \E pe \in {8, 12, 18, 22, 30, 40}, sector_pe \in {5, 10, 20, 30, 60}, peg \in {80, 120, 180, 220, 300} :
        /\ UNCHANGED outsideScore
        /\ sstage = "none"
        /\ sstage' = "valuation"
        /\ sinputs' = <<pe, sector_pe, peg>>
        /\ stotal' = ValuationPart(pe, sector_pe, peg)

AddGrowth ==
    \E revenue \in {0 - 5, 3, 8, 15, 25}, eps \in {0 - 5, 4, 10, 20, 30}, yoy \in {0 - 10, 8, 40} :
        ScoreStep("valuation", "growth", <<revenue, eps, yoy>>,
                  GrowthPart(revenue, eps, yoy))

AddProfitability ==
    \E roe \in {2, 7, 12, 20, 30}, margin \in {0 - 5, 5, 15, 25, 35} :
        ScoreStep("growth", "profitability", <<roe, margin>>,
                  ProfitabilityPart(roe, margin))

AddHealth ==
    \E de \in {2, 5, 8, 15, 25}, times \in {0, 2, 4, 8, 12} :
        ScoreStep("profitability", "health", <<de, times>>, HealthPart(de, times))

AddTechnical ==
    \E rsi \in {20, 35, 50, 65, 80}, trend \in {"Uptrend", "Sideways", "Downtrend"}, drawdown \in {5, 15, 30, 50} :
        ScoreStep("health", "technical", <<rsi, trend, drawdown>>,
                  TechnicalPart(rsi, trend, drawdown))

AddSentiment ==
    \E adjustment \in (0 - SentimentSpan)..SentimentSpan :
        ScoreStep("technical", "final", <<adjustment>>, SentimentPart(adjustment))

NextScore ==
    \/ AddValuation
    \/ AddGrowth
    \/ AddProfitability
    \/ AddHealth
    \/ AddTechnical
    \/ AddSentiment

(***************************************************************************)
(* prateek-mulye: src/agents/reporter.py, the extraction of the chart data *)
(***************************************************************************)

MaxSegments == 4

\* The character of a code fence, the grave accent.
Grave == "grave"

\* The pieces an answer of the LLM is made of.
FenceOpen == <<Grave, Grave, Grave, "j", "s", "o", "n", "\n">>
FenceClose == <<"\n", Grave, Grave, Grave>>
JsonObjectText == <<"{", "\"", "a", "\"", ":", "1", "}">>
JsonBlock == FenceOpen \o JsonObjectText \o FenceClose
Segments ==
    {<<"x">>, <<" ">>, <<"\n">>, FenceOpen, FenceClose, JsonObjectText,
     <<"{", "x">>, JsonBlock}

RECURSIVE Flatten(_)
Flatten(parts) == IF parts = <<>> THEN <<>> ELSE Head(parts) \o Flatten(Tail(parts))
FullOutputs ==
    {Flatten(parts) : parts \in UNION {[1..n -> Segments] : n \in 1..MaxSegments}}

\* The positions at which sub occurs in s.
Occurrences(s, sub) ==
    {i \in 1..(Len(s) - Len(sub) + 1) : SubSeq(s, i, i + Len(sub) - 1) = sub}
SetMin(S) == CHOOSE m \in S : \A x \in S : m <= x

\* re.search of a json fence, lazily, with DOTALL: the leftmost
\* opening fence that has a closing fence after it, and the nearest such closing
\* fence.  [found, start, stop, group1].
JsonMatch(s) ==
    LET opens == {i \in Occurrences(s, FenceOpen) :
                     \E j \in Occurrences(s, FenceClose) : j >= i + Len(FenceOpen)}
    IN  IF opens = {} THEN [found |-> FALSE, start |-> 0, stop |-> 0, group1 |-> <<>>]
        ELSE LET i == SetMin(opens)
                 j == SetMin({c \in Occurrences(s, FenceClose) : c >= i + Len(FenceOpen)})
             IN  [found |-> TRUE, start |-> i, stop |-> j + Len(FenceClose) - 1,
                  group1 |-> SubSeq(s, i + Len(FenceOpen), j - 1)]

\* json.loads over the texts of the model: of these only JsonObjectText, with
\* whitespace around it, is JSON; every other text raises.
ParsedObject == "parsed object"
JsonError == "raises"
EmptyData == "{}"
LoadsAnything(text) == ParsedObject
Loads(text) == IF Strip(text) = JsonObjectText THEN ParsedObject ELSE JsonError

\* ReportingAgent.run from "3. Extract JSON Graph Data" to the return.
ExtractGraphData(s) ==
    LET json_match == JsonMatch(s)
        group0 == SubSeq(s, json_match.start, json_match.stop)
    IN  IF json_match.found /\ Loads(json_match.group1) # JsonError
        THEN [final_report |-> Strip(Remove(s, group0)),
              financial_data |-> Loads(json_match.group1)]
        ELSE [final_report |-> s, financial_data |-> EmptyData]

NotReported == [final_report |-> <<>>, financial_data |-> "none"]

InitReport ==
    /\ full_output = <<>>
    /\ reported = NotReported

\* reporter_node on an answer of the LLM.
ReporterRun ==
    /\ UNCHANGED outsideReport
    /\ reported = NotReported
    /\ \E s \in FullOutputs :
          /\ full_output' = s
          /\ reported' = ExtractGraphData(s)

\* The next run of the graph.
ReporterNext ==
    /\ UNCHANGED outsideReport
    /\ reported # NotReported
    /\ full_output' = <<>>
    /\ reported' = NotReported

NextReport ==
    \/ ReporterRun
    \/ ReporterNext

(***************************************************************************)
(* Specifications                                                          *)
(***************************************************************************)

Init ==
    /\ InitGraph
    /\ InitApp
    /\ InitDemo
    /\ InitCtx
    /\ InitVerify
    /\ InitParse
    /\ InitScore
    /\ InitReport

SpecGraph == Init /\ [][NextGraph]_vars

SpecRate == Init /\ [][NextRate]_vars

SpecCache == Init /\ [][NextCache]_vars

SpecDemo == Init /\ [][NextDemo]_vars

SpecCtx == Init /\ [][NextCtx]_vars

SpecVerify == Init /\ [][NextVerify]_vars

SpecParse == Init /\ [][NextParse]_vars

SpecScore == Init /\ [][NextScore]_vars

SpecReport == Init /\ [][NextReport]_vars

(***************************************************************************)
(* Properties of the research graph                                        *)
(***************************************************************************)

\* C1: in a run of the graph no node (manager, the three researchers, analyst,
\* reporter) executes more than once, whatever agents_to_run the manager produced.
C1_EachNodeAtMostOnce ==
    \A n \in GraphNodes : execCount[n] <= 1

\* C2: when the manager found a final_verdict document less than 5 minutes old,
\* agents_to_run is empty, no researcher executes and the run is
\* manager -> analyst -> reporter.
C2_FreshVerdictSkipsResearchers ==
    (foundAge # NoRecency /\ foundAge < FreshMinutes * SecondsPerMinute)
        => /\ agents_to_run = {}
           /\ \A r \in Researchers : execCount[r] = 0
           /\ \E k \in 0..3 : history = SubSeq(<<"manager", "analyst", "reporter">>, 1, k)

(***************************************************************************)
(* Properties of the Gradio handler                                        *)
(***************************************************************************)

\* A step that is a call of run_research (the clock stands still in it).
IsCall == aclock' = aclock

SameLetter(c, d) == d = c \/ (c = "a" /\ d = "A") \/ (c = "b" /\ d = "B")

\* t is raw in upper case without the blanks around it.
IsStrippedUpperOf(t, raw) ==
    /\ \A i \in 1..Len(t) : t[i] \notin {"a", "b"}
    /\ t # <<>> => (t[1] # " " /\ t[Len(t)] # " ")
    /\ \E lead \in 0..Len(raw) :
          /\ lead + Len(t) <= Len(raw)
          /\ \A i \in 1..Len(raw) :
                IF i <= lead \/ i > lead + Len(t)
                THEN raw[i] = " "
                ELSE SameLetter(raw[i], t[i - lead])

C3_Step ==
    (IsCall /\ lastCall'.outcome \in {"cached", "invoked", "graph_raised"}) =>
        LET key == lastCall'.call.key
            fresh == /\ key \in DOMAIN response_cache
                     /\ aclock - response_cache[key].timestamp < CACHE_DURATION
        IN  /\ IsStrippedUpperOf(key[1], lastCall'.call.raw)
            /\ key[2] \in Modes
            /\ (lastCall'.outcome = "cached") <=> fresh
            /\ lastCall'.outcome = "cached" =>
                  /\ response_cache' = response_cache
                  /\ lastCall'.output = response_cache[key].output
                  /\ aclock - lastCall'.output.made < CACHE_DURATION
            /\ lastCall'.outcome = "invoked" =>
                  /\ key \in DOMAIN response_cache'
                  /\ response_cache'[key].timestamp = aclock
                  /\ response_cache'[key].output = lastCall'.output
                  /\ \A k \in DOMAIN response_cache \ {key} :
                        k \in DOMAIN response_cache' /\ response_cache'[k] = response_cache[k]
            /\ \A k \in DOMAIN response_cache' :
                  response_cache'[k].timestamp = response_cache'[k].output.made

\* C3: run_research serves the cached output of the key (ticker in upper case and
\* stripped, mode) without invoking the graph exactly when the key has an entry
\* younger than CACHE_DURATION; otherwise it invokes the graph and stores
\* (now, output) under the key. A hit leaves the entry and its timestamp as they
\* are, so a served output is less than CACHE_DURATION older than the request
\* that produced it.
C3_CacheHitIffFresh == [][C3_Step]_vars

\* A cached output is served, later than it was made, to a request that spells
\* the ticker differently from the key.
C3_Witness ==
    /\ lastCall.outcome = "cached"
    /\ lastCall.call.raw # lastCall.call.key[1]
    /\ aclock > lastCall.output.made

C4_Step ==
    IsCall =>
        LET c == lastCall'.call.client
        IN  /\ windowCalls'[c] <= MAX_REQUESTS_PER_WINDOW =>
                  lastCall'.outcome # "rate_limited"
            /\ windowCalls'[c] = MAX_REQUESTS_PER_WINDOW + 1 =>
                  /\ lastCall'.outcome = "rate_limited"
                  /\ rate_limit_db'[c].blocked_until = aclock + RATE_LIMIT_BLOCK
            /\ (c \in DOMAIN rate_limit_db /\ rate_limit_db[c].blocked_until > aclock) =>
                  lastCall'.outcome = "rate_limited"

\* C4: in one window the first MAX_REQUESTS_PER_WINDOW requests of a client are
\* admitted, the next one is rejected and sets blocked_until to
\* now + RATE_LIMIT_BLOCK, and a request made while blocked_until > now is rejected.
C4_BlocksOverLimit == [][C4_Step]_vars

\* The sixth request of a client in its window has just been rejected and blocked.
C4_Witness ==
    /\ lastCall.outcome = "rate_limited"
    /\ windowCalls[lastCall.call.client] = MAX_REQUESTS_PER_WINDOW + 1
    /\ rate_limit_db[lastCall.call.client].blocked_until = aclock + RATE_LIMIT_BLOCK

C5_Step ==
    LET c == lastCall'.call.client
    IN  (/\ IsCall
         /\ c \in DOMAIN rate_limit_db
         /\ rate_limit_db[c].blocked_until > 0
         /\ rate_limit_db[c].blocked_until <= aclock)
            => lastCall'.outcome # "rate_limited"

\* C5: a block lasts 30 minutes: a request of a client whose blocked_until has
\* passed is admitted by check_rate_limit.
C5_AdmittedAfterBlock == [][C5_Step]_vars

(***************************************************************************)
(* Properties of the LangGraph demo workflow                               *)
(***************************************************************************)

\* C6: the researcher node executes in a run exactly when analyst_node set
\* needs_more_research to True in that run, and should_research leaves the state
\* as it is.
C6_ResearcherIffNeedsMore ==
    /\ [](/\ dexec["researcher"] >= 1 => analystSetTrue
          /\ (dpc \in {"done", "failed"} /\ analystSetTrue) => dexec["researcher"] = 1)
    /\ [][dpc = "routing" => dstate' = dstate]_vars

\* A run in which the researcher executed has reached END.
C6_Witness ==
    /\ dpc = "done"
    /\ analystSetTrue
    /\ dexec["researcher"] = 1

StepRank(step) ==
    CASE step = "initialized" -> 0
      [] step = "data_collected" -> 1
      [] step \in {"analysis_complete", "analysis_failed"} -> 2
      [] step = "research_complete" -> 3
      [] step = "report_complete" -> 4

C8_ContextPersistsUntilClear ==
    [][\A t \in CtxTickers :
          (GetContextForTicker(memory, t) # {} /\ lastAction' # "clear")
              => GetContextForTicker(memory', t) # {}]_vars

(***************************************************************************)
(* Properties of the integration verification                              *)
(***************************************************************************)

\* C9: all_passed is true only if every recorded step passed; main exits with 0
\* exactly when all_passed; and when one of steps 1-6 fails the function has
\* returned with that step as the last one recorded, all_passed false and error
\* set.
C9_AllPassedAndEarlyReturn ==
    /\ all_passed => AllPassed(steps)
    /\ vpc = "exited" => (exit_code = 0 <=> all_passed)
    /\ \A i \in 1..Len(steps) :
          (i <= NumGateSteps /\ ~steps[i].passed) =>
              /\ Len(steps) = i
              /\ vpc \in {"returned", "exited"}
              /\ ~all_passed
              /\ error # NoError

\* main has exited after step 4 failed.
C9_Witness ==
    /\ vpc = "exited"
    /\ Len(steps) = 4
    /\ ~steps[4].passed
    /\ exit_code = 1

OnlyParallelConfigFailed ==
    /\ \E i \in 1..Len(steps) : steps[i].name = "Parallel Config" /\ ~steps[i].passed
    /\ \A i \in 1..Len(steps) : steps[i].name # "Parallel Config" => steps[i].passed

\* C10: when the Parallel Config step fails and every other step passes, the
\* verification passes: all_passed is true and the exit code is 0, in dry-run and
\* in full runs.
C10_ParallelConfigOptional ==
    (vpc = "exited" /\ OnlyParallelConfigFailed) => (all_passed /\ exit_code = 0)

(***************************************************************************)
(* Properties of parse_interactive_query                                   *)
(***************************************************************************)

CommandAction(word) ==
    CASE word \in ExitWords -> "exit"
      [] word \in HelpWords -> "help"
      [] word \in StatusWords -> "status"
      [] word \in ClearWords -> "clear"

\* C11: a command word (exit, quit, q, bye, goodbye; help, ?, commands; status,
\* session, summary; clear, reset, new), in any letter case, with any blanks
\* around it and whatever the current ticker, is classified as its action with
\* no ticker, and never as research.
C11_CommandWordsClassified ==
    (presult # NotParsed
        /\ Strip(Lower(pquery)) \in ExitWords \cup HelpWords \cup StatusWords \cup ClearWords)
    => presult = Parsed(<<>>, NoCompany, CommandAction(Strip(Lower(pquery))))

\* The capital Q between blanks, with a current ticker, was parsed as exit.
C11_Witness ==
    /\ pquery = <<" ", " ", "Q", " ">>
    /\ pcurrent # <<>>
    /\ presult = Parsed(<<>>, NoCompany, "exit")

\* C12: with a current ticker set, a query that contains one of the follow-up
\* keywords is parsed as (current_ticker, None, "followup").
C12_FollowupUsesCurrentTicker ==
    (presult # NotParsed /\ pcurrent # <<>>
        /\ \E kw \in followup_keywords : Contains(Strip(Lower(pquery)), kw))
    => presult = Parsed(pcurrent, NoCompany, "followup")

(***************************************************************************)
(* Properties of the scoring methodology                                   *)
(***************************************************************************)

\* C13: for every combination of inputs to the factor tables, the sector, PEG
\* and acceleration adjustments included, the Final Score lies between 0 and
\* 100, the range the rating thresholds cover.
C13_FinalScoreInRange ==
    sstage = "final" =>
        /\ stotal >= ScoreScale * RatingFloor
        /\ stotal <= ScoreScale * RatingCeiling

(***************************************************************************)
(* Properties of the manager's fallback                                    *)
(***************************************************************************)

\* Every execution of node b in the run comes after an execution of node a.
RanBefore(a, b) ==
    \A j \in 1..Len(history) :
        history[j] = b => \E i \in 1..(j - 1) : history[i] = a

\* C14: when the answer of the manager's LLM is no JSON, or JSON without .get,
\* agents_to_run is the three researchers, and all three have executed before
\* the analyst does.
C14_FallbackToFullRun ==
    llmKind \in {"invalid", "nonobject"} =>
        /\ agents_to_run = Researchers
        /\ \A r \in Researchers : RanBefore(r, "analyst")
        /\ gpc = "done" => \A n \in GraphNodes : execCount[n] = 1

\* A run whose LLM answer was no JSON has reached END.
C14_Witness ==
    /\ llmKind = "invalid"
    /\ gpc = "done"
    /\ history[5] = "analyst"

(***************************************************************************)
(* Properties of the response cache's growth                               *)
(***************************************************************************)

C15_Step ==
    /\ DOMAIN response_cache \subseteq DOMAIN response_cache'
    /\ DOMAIN rate_limit_db \subseteq DOMAIN rate_limit_db'
    /\ \A k \in DOMAIN response_cache' :
          (k \notin DOMAIN response_cache \/ response_cache'[k] # response_cache[k]) =>
              /\ lastCall'.outcome = "invoked"
              /\ k = lastCall'.call.key
              /\ k \in DOMAIN response_cache =>
                    aclock - response_cache[k].timestamp >= CACHE_DURATION
    /\ (IsCall /\ lastCall'.outcome = "graph_raised") => response_cache' = response_cache

\* C15: no step removes a key from response_cache or from rate_limit_db, so the
\* key sets only grow; an entry changes only when its own (ticker, mode) is
\* requested again after it expired (or is stored for the first time); and a
\* request whose graph invocation raises leaves response_cache as it was.
C15_NoEviction == [][C15_Step]_vars

\* An expired entry is still in the cache after a request stored another key.
C15_Witness ==
    /\ lastCall.outcome = "invoked"
    /\ \E k \in DOMAIN response_cache :
          /\ k # lastCall.call.key
          /\ aclock - response_cache[k].timestamp >= CACHE_DURATION

(***************************************************************************)
(* Properties of the reporter's extraction                                 *)
(***************************************************************************)

\* The first fenced block of the output holds JSON.
BlockParses ==
    /\ JsonMatch(full_output).found
    /\ Strip(JsonMatch(full_output).group1) = JsonObjectText

\* The text of that block, fences included, and the output around it.
MatchedBlock ==
    SubSeq(full_output, JsonMatch(full_output).start, JsonMatch(full_output).stop)
AroundBlock ==
    SubSeq(full_output, 1, JsonMatch(full_output).start - 1)
        \o SubSeq(full_output, JsonMatch(full_output).stop + 1, Len(full_output))

\* C16: when the output has a fenced json block that parses, financial_data is the
\* parsed object and the block is taken out of final_report (what is left of the
\* output around it, stripped); when no block matches or the block does not
\* parse, financial_data is {} and final_report is the whole output, unmodified;
\* both keys are returned in every case.
C16_ChartDataExtracted ==
    reported # NotReported =>
        /\ reported.financial_data \in {ParsedObject, EmptyData}
        /\ BlockParses =>
              /\ reported.financial_data = ParsedObject
              /\ Len(reported.final_report) <= Len(full_output) - Len(MatchedBlock)
              /\ Cardinality(Occurrences(full_output, MatchedBlock)) = 1 =>
                    reported.final_report = Strip(AroundBlock)
        /\ ~BlockParses =>
              /\ reported.financial_data = EmptyData
              /\ reported.final_report = full_output

\* A block between two pieces of text was taken out of the report.
C16_Witness ==
    /\ full_output = <<"x">> \o JsonBlock \o <<"x">>
    /\ reported = [final_report |-> <<"x", "x">>, financial_data |-> ParsedObject]

====
